---- MODULE Spec2Model ----
(***************************************************************************)
(* go-iotop: a terminal dashboard of per-process CPU, memory and I/O.      *)
(* The repository holds three variants of the same program:                *)
(*   "sortable"   src/main.go          termui table, sort keys c / r / w   *)
(*   "selectable" src/unnamed/part_000 bubbletea model with a cursor       *)
(*   "plain"      src/gopath/.../v3.24.5.mod (second half) termui table    *)
(* One behaviour of this module is one run of one variant.                 *)
(***************************************************************************)
EXTENDS Integers, Sequences, FiniteSets, TLC

VARIABLES
    variant,       \* which of the three programs is running
    pc,            \* "init" | "loop" | "done" | "fatal"; LoopSpec: "draw0" | "draw" | "update"
    currentSort,   \* main.go: var currentSort SortBy
    table,         \* termui variants: table.Rows (header first)
    m,             \* selectable variant: the bubbletea model value
    screen,        \* the process rows now on the terminal
    tickSleeping,  \* selectable: tick commands sleeping in their goroutine
    tickPending,   \* ticks delivered and not yet handled (termui: ticker channel)
    fetched,       \* history: what the metrics provider answered on the latest fetch
    lastBatch,     \* history: the batch returned by the latest successful fetch
    terminal,      \* "unopened" | "open" (ui.Init / tea Start) | "closed" (ui.Close)
    arg,           \* humanizeBytes on its own: the byte count handed to it
    printed        \* humanizeBytes on its own: what it returned

vars == <<variant, pc, currentSort, table, m, screen, tickSleeping, tickPending,
          fetched, lastBatch, terminal, arg, printed>>

Variants == {"sortable", "selectable", "plain"}

Termui == {"sortable", "plain"}

(***************************************************************************)
(* Bounds of the model.                                                    *)
(***************************************************************************)
\* processes of the small hosts have pids 1..MaxPid
MaxPid == 3

\* the large host lists pids 1..BigLen, more than the 20 rows of the table
BigLen == 21

\* the provider's counters are sampled at epochs 0..MaxEpoch
MaxEpoch == 2

\* humanizeBytes is tried on counts whose digits lie within Spread of 0 and of 1024
Spread == 1

(***************************************************************************)
(* Program constants.                                                      *)
(***************************************************************************)
SortByCPU == 0

SortByRead == 1

SortByWrite == 2

\* draw: if maxProcesses > 20 { maxProcesses = 20 }
MaxRows == 20

\* humanizeBytes: value > 1024, value /= 1024
UnitStep == 1024

\* draw: if len(files) > 3 { files = files[:3] }
MaxFiles == 3

units == <<"B", "KB", "MB", "GB", "TB">>

(***************************************************************************)
(* The metrics provider (gopsutil), an external collaborator.  One answer  *)
(* of process.Processes() is a failure or a list of processes; each        *)
(* process answers the per-field queries with a value or an error.         *)
(***************************************************************************)
Levels == <<100, 300, 600>>

\* cumulative counters: over the epochs a pid's counter rises and is reset
ReadOf(pid, e) == Levels[((pid + e) % 3) + 1]

WriteOf(pid, e) == Levels[((2 * pid + e) % 3) + 1]

\* CPU percentages with ties between neighbouring pids
CPUOf(pid, e) == 10 * ((((pid + e) \div 2) % 4) + 1)

FaultKinds == {"name", "io", "cpu", "mem", "files"}

Query(pid, e, fault) ==
    [pid      |-> pid,
     nameErr  |-> (fault = "name"),
     ioErr    |-> (fault = "io"),
     read     |-> ReadOf(pid, e),
     write    |-> WriteOf(pid, e),
     cpuErr   |-> (fault = "cpu"),
     cpu      |-> CPUOf(pid, e),
     memErr   |-> (fault = "mem"),
     mem      |-> pid,
     filesErr |-> (fault = "files"),
     files    |-> IF pid % 2 = 1 THEN <<"/a", "", "/b", "/c", "/d">> ELSE <<>>]

Asc(a, b) == [i \in 1..(b - a + 1) |-> a + i - 1]

Desc(a, b) == [i \in 1..(b - a + 1) |-> b - i + 1]

\* the orders in which a small host lists its processes
Orders ==
    {<<>>} \cup {Asc(a, b) : a \in 1..MaxPid, b \in 1..MaxPid}
           \cup {Desc(a, b) : a \in 1..MaxPid, b \in 1..MaxPid}

BigOrders == {Asc(1, BigLen), Desc(1, BigLen)}

\* the first listed process is the one whose query fails
Listing(order, e, fault) ==
    [i \in 1..Len(order) |-> Query(order[i], e, IF i = 1 THEN fault ELSE "none")]

FetchFailed == [st |-> "fail", procs |-> <<>>]

NotFetched == [st |-> "none", procs |-> <<>>]

\* humanizeBytes has not been called
NotPrinted == [hundredths |-> 0, unit |-> "none"]

\* the orders in which a fault is drawn: the whole host, the failing process first
FaultOrders == {Asc(1, MaxPid), Desc(1, MaxPid)}

Answers ==
    {FetchFailed}
    \cup {[st |-> "ok", procs |-> Listing(o, e, "none")] :
             o \in Orders, e \in 0..MaxEpoch}
    \cup {[st |-> "ok", procs |-> Listing(o, 0, "none")] : o \in BigOrders}
    \cup {[st |-> "ok", procs |-> Listing(o, 0, f)] :
             o \in FaultOrders, f \in FaultKinds}

(***************************************************************************)
(* humanizeBytes.  Its argument is a float64 holding a whole byte count    *)
(* (float64(ioStats.ReadBytes)); it is held as the count's base-1024       *)
(* digits, least significant first, so that counts up to the TB range fit. *)
(* The value of the loop is the digits with a point after the first        *)
(* `point` of them, value = sum of digits[i] * 1024^(i - 1 - point).       *)
(* The conversion and the divisions by 1024 are exact for counts < 2^53.   *)
(* The result is the unit and the mantissa in hundredths as "%.2f" prints  *)
(* it (round to nearest, an exact tie to even).                            *)
(***************************************************************************)
\* float64(n): the digits of a count small enough to be written as a number
RECURSIVE Float64(_)
Float64(n) == IF n < UnitStep THEN <<n>> ELSE <<n % UnitStep>> \o Float64(n \div UnitStep)

DigitAt(digits, i) == IF i \in 1..Len(digits) THEN digits[i] ELSE 0

\* value > 1024
Exceeds(value) ==
    \/ \E i \in (value.point + 3)..Len(value.digits) : value.digits[i] # 0
    \/ DigitAt(value.digits, value.point + 2) > 1
    \/ /\ DigitAt(value.digits, value.point + 2) = 1
       /\ \E i \in 1..(value.point + 1) : DigitAt(value.digits, i) # 0

\* for value > 1024 && unitIndex < len(units)-1 { value /= 1024; unitIndex++ }
RECURSIVE Scale(_, _)
Scale(value, unitIndex) ==
    IF Exceeds(value) /\ unitIndex < Len(units) - 1
    THEN Scale([value EXCEPT !.point = @ + 1], unitIndex + 1)
    ELSE [value |-> value, unitIndex |-> unitIndex]

\* the whole part of a value: the digits from place i up
RECURSIVE Whole(_, _)
Whole(digits, i) ==
    IF i > Len(digits) THEN 0 ELSE digits[i] + UnitStep * Whole(digits, i + 1)

\* the digits of a fraction times 100: the fraction that is left and the carry
RECURSIVE Times100(_, _)
Times100(frac, carry) ==
    IF frac = <<>> THEN [digits |-> <<>>, carry |-> carry]
    ELSE LET t == Head(frac) * 100 + carry
             rest == Times100(Tail(frac), t \div UnitStep)
         IN  [digits |-> <<t % UnitStep>> \o rest.digits, carry |-> rest.carry]

\* "%.2f" of a value: its hundredths
Sprintf2(value) ==
    LET k == value.point
        t == Times100(SubSeq(value.digits, 1, k), 0)
        q == Whole(value.digits, k + 1) * 100 + t.carry
        top == DigitAt(t.digits, k)
        low == \E i \in 1..(k - 1) : t.digits[i] # 0
        half == UnitStep \div 2
    IN  IF top > half \/ (top = half /\ low) \/ (top = half /\ ~low /\ q % 2 = 1)
        THEN q + 1 ELSE q

humanizeBytes(bytes) ==
    LET v == Scale([digits |-> bytes, point |-> 0], 0)
    IN  [hundredths |-> Sprintf2(v.value), unit |-> units[v.unitIndex + 1]]

\* humanizeBytes tabulated over the counts the provider's counters give rise
\* to, so that each is worked out once
Humanized ==
    [n \in {0} \cup {Levels[i] : i \in 1..Len(Levels)} |-> humanizeBytes(Float64(n))]

\* fmt.Sprintf("%.1f", x) of a whole percentage: its tenths
Sprintf1(x) == [tenths |-> 10 * x]

(***************************************************************************)
(* getProcessesIO: the per-process loop.                                   *)
(***************************************************************************)
\* openFiles, _ := p.OpenFiles(); keep the non-empty paths
OpenFilePaths(q) ==
    IF q.filesErr THEN <<>> ELSE SelectSeq(q.files, LAMBDA f : f # "")

\* cpuPercent, _ := p.CPUPercent(): the zero value when the query fails
CPUPercent(q) == IF q.cpuErr THEN 0 ELSE q.cpu

MemoryPercent(q) == IF q.memErr THEN 0 ELSE q.mem

\* main.go: for _, prev := range processStats { if prev.PID == p.Pid ... break }
\* the index of the first entry of the batch being built with this pid, or 0
FindPrev(processStats, pid) ==
    IF \E i \in 1..Len(processStats) : processStats[i].PID = pid
    THEN CHOOSE i \in 1..Len(processStats) :
            /\ processStats[i].PID = pid
            /\ \A j \in 1..(i - 1) : processStats[j].PID # pid
    ELSE 0

ReadRate(processStats, q) ==
    LET i == FindPrev(processStats, q.pid)
    IN  IF i = 0 THEN 0 ELSE q.read - processStats[i].LastRead

WriteRate(processStats, q) ==
    LET i == FindPrev(processStats, q.pid)
    IN  IF i = 0 THEN 0 ELSE q.write - processStats[i].LastWrite

\* the ProcessIO value appended for one process
ProcessIO(v, processStats, q) ==
    CASE v = "sortable" ->
            [PID |-> q.pid, Name |-> "proc",
             ReadBytes |-> q.read, WriteBytes |-> q.write,
             LastRead |-> q.read, LastWrite |-> q.write,
             ReadRate |-> ReadRate(processStats, q),
             WriteRate |-> WriteRate(processStats, q),
             OpenFiles |-> OpenFilePaths(q),
             CPUPercent |-> CPUPercent(q), MemPercent |-> MemoryPercent(q)]
      [] v = "selectable" ->
            [PID |-> q.pid, Name |-> "proc",
             ReadBytes |-> q.read, WriteBytes |-> q.write,
             OpenFiles |-> OpenFilePaths(q),
             CPUPercent |-> CPUPercent(q), MemPercent |-> MemoryPercent(q)]
      [] OTHER ->
            [PID |-> q.pid, Name |-> "proc",
             ReadBytes |-> q.read, WriteBytes |-> q.write,
             OpenFiles |-> OpenFilePaths(q)]

\* mutant: only a failed Name() skips the process
Skipped_NameOnly(q) == q.nameErr

\* a process whose Name() or IOCounters() fails is skipped (continue)
Skipped(q) == q.nameErr \/ q.ioErr

RECURSIVE CollectStats(_, _, _)
CollectStats(v, procs, processStats) ==
    IF procs = <<>> THEN processStats
    ELSE LET q == Head(procs)
         IN  IF Skipped(q)
             THEN CollectStats(v, Tail(procs), processStats)
             ELSE CollectStats(v, Tail(procs),
                               Append(processStats, ProcessIO(v, processStats, q)))

(***************************************************************************)
(* sort.Slice.  "The sort is not guaranteed to be stable: equal elements   *)
(* may be reversed from their original order."                             *)
(***************************************************************************)
\* the less closure handed to sort.Slice: a comes before b
Less(v, by, a, b) ==
    CASE v = "sortable" /\ by = SortByRead  -> a.ReadRate > b.ReadRate
      [] v = "sortable" /\ by = SortByWrite -> a.WriteRate > b.WriteRate
      [] v = "sortable"                     -> a.CPUPercent > b.CPUPercent
      [] v = "selectable"                   -> a.CPUPercent > b.CPUPercent
      [] OTHER -> a.ReadBytes + a.WriteBytes > b.ReadBytes + b.WriteBytes

Ordered(v, by, s) ==
    \A i \in 1..Len(s) : \A j \in (i + 1)..Len(s) : ~Less(v, by, s[j], s[i])

\* the stable arrangement: insert x after every element that is not less than it
RECURSIVE InsertSorted(_, _, _, _)
InsertSorted(v, by, s, x) ==
    IF s = <<>> THEN <<x>>
    ELSE IF Less(v, by, x, Head(s)) THEN <<x>> \o s
         ELSE <<Head(s)>> \o InsertSorted(v, by, Tail(s), x)

RECURSIVE StableSort(_, _, _, _)
StableSort(v, by, s, acc) ==
    IF s = <<>> THEN acc
    ELSE StableSort(v, by, Tail(s), InsertSorted(v, by, acc, Head(s)))

Reverse(s) == [i \in 1..Len(s) |-> s[Len(s) + 1 - i]]

\* The arrangements sort.Slice may leave: equal elements in their original order
\* (what an insertion sort gives) or reversed from it.  The other ordered
\* permutations differ from these only in the places of equal elements.
SortSlice(v, by, s) ==
    {StableSort(v, by, s, <<>>), StableSort(v, by, Reverse(s), <<>>)}

\* mutant: the batch is cut to 20 before it is sorted
getProcessesIO_CutFirst(v, by, procs) ==
    LET all == CollectStats(v, procs, <<>>)
    IN  SortSlice(v, by, IF Len(all) > 20 THEN SubSeq(all, 1, 20) ELSE all)

\* the batches a successful getProcessesIO may return for one listing
getProcessesIO(v, by, procs) == SortSlice(v, by, CollectStats(v, procs, <<>>))

\* getProcessesIO tabulated over the provider's answers, so that each is worked
\* out once
OkAnswers == {a \in Answers : a.st = "ok"}

Batches ==
    [v \in Variants |-> [by \in {SortByCPU, SortByRead, SortByWrite} |->
        [a \in OkAnswers |-> getProcessesIO(v, by, a.procs)]]]

(***************************************************************************)
(* Rows.                                                                   *)
(***************************************************************************)
Header(v) ==
    IF v = "sortable"
    THEN <<"PID", "Name", "CPU%", "MEM%", "Read/s", "Write/s", "Open Files">>
    ELSE <<"PID", "Name", "Read/s", "Write/s", "Open Files">>

\* main.go: "-" when there are none, else at most 3 paths joined by newlines
FilesPreview(files) ==
    IF Len(files) = 0 THEN <<"-">>
    ELSE IF Len(files) > MaxFiles THEN SubSeq(files, 1, MaxFiles) ELSE files

\* one table row of the termui variants
Row(v, p) ==
    IF v = "sortable"
    THEN [pid |-> p.PID, name |-> p.Name,
          cpu |-> Sprintf1(p.CPUPercent), mem |-> Sprintf1(p.MemPercent),
          read |-> Humanized[p.ReadRate], write |-> Humanized[p.WriteRate],
          files |-> FilesPreview(p.OpenFiles)]
    ELSE [pid |-> p.PID, name |-> p.Name,
          read |-> Humanized[p.ReadBytes], write |-> Humanized[p.WriteBytes],
          files |-> p.OpenFiles]

\* draw: the header, then a row for each of processes[:maxProcesses]
Rows(v, processes) ==
    LET maxProcesses == IF Len(processes) > MaxRows THEN MaxRows ELSE Len(processes)
    IN  <<Header(v)>> \o [i \in 1..maxProcesses |-> Row(v, processes[i])]

\* model.View: one line per process of m.processes; the selected one carries
\* the cursor and, with showFiles, its open files
ViewRow(mm, i) ==
    LET p == mm.processes[i]
        sel == (i - 1 = mm.selected)
    IN  [cursor |-> IF sel THEN ">" ELSE " ",
         pid |-> p.PID, name |-> p.Name,
         cpu |-> Sprintf1(p.CPUPercent), mem |-> Sprintf1(p.MemPercent),
         read |-> Humanized[p.ReadBytes], write |-> Humanized[p.WriteBytes],
         files |-> IF sel /\ mm.showFiles
                   THEN [open |-> TRUE, paths |-> p.OpenFiles]
                   ELSE [open |-> FALSE, paths |-> <<>>]]

View(mm) == [i \in 1..Len(mm.processes) |-> ViewRow(mm, i)]

(***************************************************************************)
(* The state after construction: main has not run yet.                     *)
(***************************************************************************)
Init ==
    /\ variant \in Variants
    /\ pc = "init"
    /\ currentSort = SortByCPU
    /\ table = <<>>
    /\ m = [processes |-> <<>>, selected |-> 0, showFiles |-> FALSE]
    /\ screen = <<>>
    /\ tickSleeping = 0
    /\ tickPending = 0
    /\ fetched = NotFetched
    /\ lastBatch = <<>>
    /\ terminal = "unopened"
    /\ arg = Float64(0)
    /\ printed = NotPrinted

(***************************************************************************)
(* draw (termui variants): fetch, and on success rebuild and render the    *)
(* table; on failure log and return, leaving table and terminal alone.     *)
(* Reads currentSort', which the caller has set; rows is table.Rows as the  *)
(* call finds it.                                                          *)
(***************************************************************************)
draw(ans, rows) ==
    /\ fetched' = ans
    /\ IF ans.st = "fail"
       THEN /\ table' = rows
            /\ UNCHANGED <<screen, lastBatch>>
       ELSE \E processes \in Batches[variant][currentSort'][ans] :
                /\ table' = Rows(variant, processes)
                /\ screen' = Tail(table')
                /\ lastBatch' = processes

\* table.Rows as main sets it before the first draw
InitialRows(v) ==
    IF v = "sortable" THEN <<>>
    ELSE <<<<"PID", "Name", "Read (B/s)", "Write (B/s)">>>>

\* ui.Init() / tea.Program.Start() fails: log.Fatal before any sampling
StartupFatal ==
    /\ pc = "init"
    /\ pc' = "fatal"
    /\ UNCHANGED <<variant, currentSort, table, m, screen, tickSleeping, tickPending,
                   fetched, lastBatch>>
    /\ UNCHANGED <<terminal, arg, printed>>

\* termui main up to the loop: currentSort = SortByCPU, the table, the first
\* draw(), then the event channel and the ticker
Startup ==
    /\ pc = "init"
    /\ variant \in Termui
    /\ currentSort' = SortByCPU
    /\ \E ans \in Answers : draw(ans, InitialRows(variant))
    /\ pc' = "loop"
    /\ UNCHANGED <<variant, m, tickSleeping, tickPending>>
    /\ terminal' = "open"
    /\ UNCHANGED <<arg, printed>>

\* bubbletea: tea.NewProgram(model{}).Start() runs Init (the first tick command)
\* and renders View
Start ==
    /\ pc = "init"
    /\ variant = "selectable"
    /\ tickSleeping' = tickSleeping + 1
    /\ screen' = View(m)
    /\ pc' = "loop"
    /\ UNCHANGED <<variant, currentSort, table, m, tickPending, fetched, lastBatch>>
    /\ terminal' = "open"
    /\ UNCHANGED <<arg, printed>>

\* time.NewTicker(time.Second).C holds one tick; a tick that finds it full is dropped
TickerFire ==
    /\ pc = "loop"
    /\ variant \in Termui
    /\ tickPending = 0
    /\ tickPending' = 1
    /\ UNCHANGED <<variant, pc, currentSort, table, m, screen, tickSleeping,
                   fetched, lastBatch>>
    /\ UNCHANGED <<terminal, arg, printed>>

\* mutant: a tick already delivered is still drawn after the loop has returned
Tick_AfterQuit ==
    /\ pc \in {"loop", "done"}
    /\ variant \in Termui
    /\ tickPending = 1
    /\ tickPending' = 0
    /\ currentSort' = currentSort
    /\ \E ans \in Answers : draw(ans, table)
    /\ UNCHANGED <<variant, pc, m, tickSleeping>>
    /\ UNCHANGED <<terminal, arg, printed>>

\* case <-ticker: draw()
Tick ==
    /\ pc = "loop"
    /\ variant \in Termui
    /\ tickPending = 1
    /\ tickPending' = 0
    /\ currentSort' = currentSort
    /\ \E ans \in Answers : draw(ans, table)
    /\ UNCHANGED <<variant, pc, m, tickSleeping>>
    /\ UNCHANGED <<terminal, arg, printed>>

\* case "<Resize>": draw()
Resize ==
    /\ pc = "loop"
    /\ variant \in Termui
    /\ currentSort' = currentSort
    /\ \E ans \in Answers : draw(ans, table)
    /\ UNCHANGED <<variant, pc, m, tickSleeping, tickPending>>
    /\ UNCHANGED <<terminal, arg, printed>>

\* mutant: the key is stored and nothing is drawn until the next event
KeySort_NoRedraw(by) ==
    /\ pc = "loop"
    /\ variant = "sortable"
    /\ currentSort' = by
    /\ UNCHANGED <<variant, pc, table, m, screen, tickSleeping, tickPending,
                   fetched, lastBatch>>
    /\ UNCHANGED <<terminal, arg, printed>>

\* case "r" / "w" / "c": currentSort = ...; draw()
KeySort(by) ==
    /\ pc = "loop"
    /\ variant = "sortable"
    /\ currentSort' = by
    /\ \E ans \in Answers : draw(ans, table)
    /\ UNCHANGED <<variant, pc, m, tickSleeping, tickPending>>
    /\ UNCHANGED <<terminal, arg, printed>>

KeyR == KeySort(SortByRead)

KeyW == KeySort(SortByWrite)

KeyC == KeySort(SortByCPU)

\* tick(): time.Sleep(time.Second); return tickMsg{}
TickWake ==
    /\ pc = "loop"
    /\ variant = "selectable"
    /\ tickSleeping > 0
    /\ tickSleeping' = tickSleeping - 1
    /\ tickPending' = tickPending + 1
    /\ UNCHANGED <<variant, pc, currentSort, table, m, screen, fetched, lastBatch>>
    /\ UNCHANGED <<terminal, arg, printed>>

\* mutant: a failed fetch returns without the next tick command
UpdateTick_StopsOnFailure ==
    /\ pc = "loop"
    /\ variant = "selectable"
    /\ tickPending > 0
    /\ \E ans \in Answers :
          /\ fetched' = ans
          /\ IF ans.st = "fail"
             THEN /\ m' = [m EXCEPT !.processes = <<>>]
                  /\ tickSleeping' = tickSleeping
                  /\ UNCHANGED lastBatch
             ELSE \E processes \in Batches[variant][currentSort][ans] :
                      /\ m' = [m EXCEPT !.processes = processes]
                      /\ tickSleeping' = tickSleeping + 1
                      /\ lastBatch' = processes
    /\ tickPending' = tickPending - 1
    /\ screen' = View(m')
    /\ UNCHANGED <<variant, pc, currentSort, table>>
    /\ UNCHANGED <<terminal, arg, printed>>

\* Update, case tickMsg: m.processes, err = getProcessesIO(); return m, tick
UpdateTick ==
    /\ pc = "loop"
    /\ variant = "selectable"
    /\ tickPending > 0
    /\ \E ans \in Answers :
          /\ fetched' = ans
          /\ IF ans.st = "fail"
             THEN /\ m' = [m EXCEPT !.processes = <<>>]
                  /\ UNCHANGED lastBatch
             ELSE \E processes \in Batches[variant][currentSort][ans] :
                      /\ m' = [m EXCEPT !.processes = processes]
                      /\ lastBatch' = processes
    /\ tickPending' = tickPending - 1
    /\ tickSleeping' = tickSleeping + 1
    /\ screen' = View(m')
    /\ UNCHANGED <<variant, pc, currentSort, table>>
    /\ UNCHANGED <<terminal, arg, printed>>

\* Update, case tea.KeyMsg "up"
KeyUp ==
    /\ pc = "loop"
    /\ variant = "selectable"
    /\ m' = IF m.selected > 0 THEN [m EXCEPT !.selected = m.selected - 1] ELSE m
    /\ screen' = View(m')
    /\ UNCHANGED <<variant, pc, currentSort, table, tickSleeping, tickPending,
                   fetched, lastBatch>>
    /\ UNCHANGED <<terminal, arg, printed>>

\* mutant: the key handler returns the tick command as well
KeyDown_Reschedules ==
    /\ pc = "loop"
    /\ variant = "selectable"
    /\ m' = IF m.selected < Len(m.processes) - 1
            THEN [m EXCEPT !.selected = m.selected + 1] ELSE m
    /\ screen' = View(m')
    /\ tickSleeping' = tickSleeping + 1
    /\ UNCHANGED <<variant, pc, currentSort, table, tickPending, fetched, lastBatch>>
    /\ UNCHANGED <<terminal, arg, printed>>

\* Update, case tea.KeyMsg "down"
KeyDown ==
    /\ pc = "loop"
    /\ variant = "selectable"
    /\ m' = IF m.selected < Len(m.processes) - 1
            THEN [m EXCEPT !.selected = m.selected + 1] ELSE m
    /\ screen' = View(m')
    /\ UNCHANGED <<variant, pc, currentSort, table, tickSleeping, tickPending,
                   fetched, lastBatch>>
    /\ UNCHANGED <<terminal, arg, printed>>

\* Update, case tea.KeyMsg "enter"
KeyEnter ==
    /\ pc = "loop"
    /\ variant = "selectable"
    /\ m' = [m EXCEPT !.showFiles = ~m.showFiles]
    /\ screen' = View(m')
    /\ UNCHANGED <<variant, pc, currentSort, table, tickSleeping, tickPending,
                   fetched, lastBatch>>
    /\ UNCHANGED <<terminal, arg, printed>>

\* "q", "<C-c>": return (deferred ui.Close()); "q", "ctrl+c": tea.Quit
Quit ==
    /\ pc = "loop"
    /\ pc' = "done"
    /\ UNCHANGED <<variant, currentSort, table, m, screen, tickSleeping, tickPending,
                   fetched, lastBatch>>
    /\ terminal' = "closed"
    /\ UNCHANGED <<arg, printed>>

Next ==
    \/ StartupFatal
    \/ Startup
    \/ Start
    \/ TickerFire
    \/ Tick
    \/ Resize
    \/ KeyR
    \/ KeyW
    \/ KeyC
    \/ TickWake
    \/ UpdateTick
    \/ KeyUp
    \/ KeyDown
    \/ KeyEnter
    \/ Quit

Spec == Init /\ [][Next]_vars

(***************************************************************************)
(* The same program with the scheduling its timers give it: the ticker     *)
(* goroutine of time.NewTicker and the goroutine of a tick command wake up *)
(* after their second, and a delivered tick stays deliverable until select *)
(* (termui) or the bubbletea loop takes it.  Keys and resizes are the      *)
(* user's and carry no obligation.                                         *)
(***************************************************************************)
FairSpec ==
    /\ Init /\ [][Next]_vars
    /\ WF_vars(TickerFire) /\ WF_vars(Tick)
    /\ WF_vars(TickWake) /\ WF_vars(UpdateTick)

(***************************************************************************)
(* The loop at a finer grain: a handler that samples is two steps, the     *)
(* loop goroutine entering draw() / Update's tickMsg case and the call     *)
(* returning, so that what the other goroutines (the ticker, a sleeping    *)
(* tick command) do while a slow fetch runs is part of the behaviour.      *)
(* pc is the position of the loop goroutine: "draw0" in the draw() before  *)
(* the loop, "draw" in a draw() called from the select, "update" in        *)
(* Update's tickMsg case, "loop" waiting for the next event.               *)
(***************************************************************************)
\* main up to the call of the first draw(); the ticker does not exist yet
DrawFirst ==
    /\ pc = "init"
    /\ variant \in Termui
    /\ currentSort' = SortByCPU
    /\ table' = InitialRows(variant)
    /\ terminal' = "open"
    /\ pc' = "draw0"
    /\ UNCHANGED <<variant, m, screen, tickSleeping, tickPending, fetched, lastBatch,
                   arg, printed>>

\* the ticker's goroutine sends to its channel of capacity 1 whatever the loop
\* goroutine is doing; a tick that finds the channel full is dropped
TickerFires ==
    /\ pc \in {"loop", "draw"}
    /\ variant \in Termui
    /\ tickPending = 0
    /\ tickPending' = 1
    /\ UNCHANGED <<variant, pc, currentSort, table, m, screen, tickSleeping,
                   fetched, lastBatch, terminal, arg, printed>>

\* mutant: the tick is handled as soon as it is there, a draw() in progress or not
SelectTick_Racing ==
    /\ pc \in {"loop", "draw"}
    /\ variant \in Termui
    /\ tickPending = 1
    /\ tickPending' = 0
    /\ currentSort' = currentSort
    /\ \E ans \in Answers : draw(ans, table)
    /\ UNCHANGED <<variant, pc, m, tickSleeping, terminal, arg, printed>>

\* select: case <-ticker, up to the call of draw()
SelectTick ==
    /\ pc = "loop"
    /\ variant \in Termui
    /\ tickPending = 1
    /\ tickPending' = 0
    /\ pc' = "draw"
    /\ UNCHANGED <<variant, currentSort, table, m, screen, tickSleeping,
                   fetched, lastBatch, terminal, arg, printed>>

\* select: case "<Resize>", up to the call of draw()
SelectResize ==
    /\ pc = "loop"
    /\ variant \in Termui
    /\ pc' = "draw"
    /\ UNCHANGED <<variant, currentSort, table, m, screen, tickSleeping, tickPending,
                   fetched, lastBatch, terminal, arg, printed>>

\* select: case "r" / "w" / "c": currentSort = ..., up to the call of draw()
SelectSort(by) ==
    /\ pc = "loop"
    /\ variant = "sortable"
    /\ currentSort' = by
    /\ pc' = "draw"
    /\ UNCHANGED <<variant, table, m, screen, tickSleeping, tickPending,
                   fetched, lastBatch, terminal, arg, printed>>

SelectR == SelectSort(SortByRead)

SelectW == SelectSort(SortByWrite)

SelectC == SelectSort(SortByCPU)

\* draw() runs from getProcessesIO() to ui.Render and returns to the loop
DrawReturns ==
    /\ pc \in {"draw0", "draw"}
    /\ currentSort' = currentSort
    /\ \E ans \in Answers : draw(ans, table)
    /\ pc' = "loop"
    /\ UNCHANGED <<variant, m, tickSleeping, tickPending, terminal, arg, printed>>

\* the bubbletea loop takes a tickMsg and calls Update
UpdateBegins ==
    /\ pc = "loop"
    /\ variant = "selectable"
    /\ tickPending > 0
    /\ tickPending' = tickPending - 1
    /\ pc' = "update"
    /\ UNCHANGED <<variant, currentSort, table, m, screen, tickSleeping,
                   fetched, lastBatch, terminal, arg, printed>>

\* Update's tickMsg case runs from getProcessesIO() to return m, tick; the
\* loop renders View and starts the tick command
UpdateReturns ==
    /\ pc = "update"
    /\ \E ans \in Answers :
          /\ fetched' = ans
          /\ IF ans.st = "fail"
             THEN /\ m' = [m EXCEPT !.processes = <<>>]
                  /\ UNCHANGED lastBatch
             ELSE \E processes \in Batches[variant][currentSort][ans] :
                      /\ m' = [m EXCEPT !.processes = processes]
                      /\ lastBatch' = processes
    /\ tickSleeping' = tickSleeping + 1
    /\ screen' = View(m')
    /\ pc' = "loop"
    /\ UNCHANGED <<variant, currentSort, table, tickPending, terminal, arg, printed>>

LoopNext ==
    \/ StartupFatal
    \/ DrawFirst
    \/ Start
    \/ TickerFires
    \/ SelectTick
    \/ SelectResize
    \/ SelectR
    \/ SelectW
    \/ SelectC
    \/ DrawReturns
    \/ TickWake
    \/ UpdateBegins
    \/ UpdateReturns
    \/ KeyUp
    \/ KeyDown
    \/ KeyEnter
    \/ Quit

LoopSpec == Init /\ [][LoopNext]_vars

(***************************************************************************)
(* humanizeBytes on its own: a byte count is drawn and the function is     *)
(* applied to it once.  The counts have six base-1024 digits, each at an   *)
(* edge (near 0, near 1024) or at a fraction that "%.2f" rounds (1/8,      *)
(* 1/2); the sixth digit stays below 8, that is bytes < 2^53.              *)
(***************************************************************************)
Edge == (0..Spread) \cup {128, 512} \cup ((UnitStep - Spread)..(UnitStep - 1))

ByteCounts ==
    {<<d1, d2, d3, d4, d5, d6>> :
        d1 \in Edge, d2 \in Edge, d3 \in Edge, d4 \in Edge, d5 \in Edge, d6 \in {0, 1, 7}}

HumanizeInit ==
    /\ arg \in ByteCounts
    /\ printed = NotPrinted
    /\ variant = "sortable"
    /\ pc = "init"
    /\ currentSort = SortByCPU
    /\ table = <<>>
    /\ m = [processes |-> <<>>, selected |-> 0, showFiles |-> FALSE]
    /\ screen = <<>>
    /\ tickSleeping = 0
    /\ tickPending = 0
    /\ fetched = NotFetched
    /\ lastBatch = <<>>
    /\ terminal = "unopened"

Humanize ==
    /\ printed = NotPrinted
    /\ printed' = humanizeBytes(arg)
    /\ UNCHANGED <<variant, pc, currentSort, table, m, screen, tickSleeping, tickPending,
                   fetched, lastBatch, terminal, arg>>

HumanizeNext == Humanize

HumanizeSpec == HumanizeInit /\ [][HumanizeNext]_vars

TypeOK ==
    /\ variant \in Variants
    /\ pc \in {"init", "loop", "done", "fatal", "draw0", "draw", "update"}
    /\ currentSort \in {SortByCPU, SortByRead, SortByWrite}
    /\ fetched \in Answers \cup {NotFetched}
    /\ terminal \in {"unopened", "open", "closed"}

(***************************************************************************)
(* Vocabulary of the properties.                                           *)
(***************************************************************************)
\* a step in which the program asked the provider for a batch
Sampled == Startup \/ Tick \/ Resize \/ KeyR \/ KeyW \/ KeyC \/ UpdateTick

Max0(x) == IF x > 0 THEN x ELSE 0

PidsOf(batch) == {batch[i].PID : i \in 1..Len(batch)}

Entry(batch, pid) == batch[CHOOSE i \in 1..Len(batch) : batch[i].PID = pid]

\* the processes of the provider's listing whose name and I/O counters were read
Reported(procs) == {i \in 1..Len(procs) : ~procs[i].nameErr /\ ~procs[i].ioErr}

\* where a pid stands in the provider's listing
Place(procs, pid) == CHOOSE i \in 1..Len(procs) : procs[i].pid = pid

\* the value a sample is ranked by
KeyOf(v, by, p) ==
    CASE v = "sortable" /\ by = 1 -> p.ReadRate
      [] v = "sortable" /\ by = 2 -> p.WriteRate
      [] v = "plain"               -> p.ReadBytes + p.WriteBytes
      [] OTHER                     -> p.CPUPercent

ShownPids == {screen[i].pid : i \in 1..Len(screen)}

ShownKey(i) == KeyOf(variant, currentSort, Entry(lastBatch, screen[i].pid))

\* the table shows the head of the fetched batch in descending order of the key
RedrawnBy(by) ==
    fetched.st = "ok" =>
        /\ ShownPids \subseteq {fetched.procs[i].pid : i \in Reported(fetched.procs)}
        /\ Len(screen) = (IF Len(lastBatch) > 20 THEN 20 ELSE Len(lastBatch))
        /\ \A i \in 1..Len(screen) : \A j \in (i + 1)..Len(screen) :
                KeyOf(variant, by, Entry(lastBatch, screen[i].pid))
                    >= KeyOf(variant, by, Entry(lastBatch, screen[j].pid))

(***************************************************************************)
(* C1.  A process in both the previous tick's batch and this tick's batch  *)
(* is shown with read-rate and write-rate max(0, current cumulative        *)
(* counter - previous cumulative counter), whatever its place in either.   *)
(* Stated of the variant that derives rates, on a successful fetch that    *)
(* follows a successful fetch.                                             *)
(***************************************************************************)
C1_RateIsDelta ==
    [][(Sampled /\ variant = "sortable" /\ fetched.st = "ok" /\ fetched'.st = "ok") =>
        \A i \in 1..Len(screen') :
            screen'[i].pid \in PidsOf(lastBatch) =>
                LET prev == Entry(lastBatch, screen'[i].pid)
                    curr == Entry(lastBatch', screen'[i].pid)
                IN  /\ screen'[i].read =
                           humanizeBytes(Float64(Max0(curr.ReadBytes - prev.ReadBytes)))
                    /\ screen'[i].write =
                           humanizeBytes(Float64(Max0(curr.WriteBytes - prev.WriteBytes)))]_vars

(***************************************************************************)
(* C2.  A process with no entry of its pid in the previous batch is shown  *)
(* with read-rate and write-rate 0, whatever its cumulative counters: the  *)
(* Read/s and Write/s columns never carry the lifetime totals.             *)
(***************************************************************************)
C2_NewProcessRateZero ==
    [][(Sampled /\ fetched'.st = "ok") =>
        \A i \in 1..Len(screen') :
            screen'[i].pid \notin PidsOf(lastBatch) =>
                /\ screen'[i].read = humanizeBytes(Float64(0))
                /\ screen'[i].write = humanizeBytes(Float64(0))]_vars

(***************************************************************************)
(* C3.  Ranking is stable: of two samples with equal value of the active   *)
(* sort key, the one listed first by the provider is ranked first.         *)
(***************************************************************************)
C3_StableRanking ==
    (pc = "loop" /\ fetched.st = "ok") =>
        \A i \in 1..Len(lastBatch) : \A j \in (i + 1)..Len(lastBatch) :
            ~Less(variant, currentSort, lastBatch[i], lastBatch[j]) =>
                Place(fetched.procs, lastBatch[i].PID)
                    < Place(fetched.procs, lastBatch[j].PID)

(***************************************************************************)
(* C4.  Truncation happens after sorting: the table of the termui variants *)
(* shows min(20, n) rows of a batch of n samples, in descending order of   *)
(* the active sort key, and no sample left out has a strictly larger key   *)
(* than one shown.                                                         *)
(***************************************************************************)
C4_TruncationAfterSort ==
    (variant \in Termui /\ fetched.st = "ok") =>
        LET n == Cardinality(Reported(fetched.procs))
        IN  /\ Len(screen) = (IF n < 20 THEN n ELSE 20)
            /\ Cardinality(ShownPids) = Len(screen)
            /\ PidsOf(lastBatch) = {fetched.procs[i].pid : i \in Reported(fetched.procs)}
            /\ ShownPids \subseteq PidsOf(lastBatch)
            /\ \A i \in 1..Len(screen) : \A j \in (i + 1)..Len(screen) :
                    ShownKey(i) >= ShownKey(j)
            /\ \A i \in 1..Len(screen) : \A k \in 1..Len(lastBatch) :
                    lastBatch[k].PID \notin ShownPids =>
                        KeyOf(variant, currentSort, lastBatch[k]) <= ShownKey(i)

\* a batch of more than 20 was cut, and the sample left out is not the one the
\* provider listed last: it was ranked below the others
C4_Witness ==
    /\ variant \in Termui
    /\ fetched.st = "ok"
    /\ Len(lastBatch) > 20
    /\ Len(screen) = 20
    /\ fetched.procs[Len(fetched.procs)].pid \in ShownPids
    /\ \E k \in 1..Len(lastBatch) : \E i \in 1..Len(screen) :
          /\ lastBatch[k].PID \notin ShownPids
          /\ KeyOf(variant, currentSort, lastBatch[k]) < ShownKey(i)

(***************************************************************************)
(* C5.  In every variant the rendered table has at most 20 process rows    *)
(* and at most as many as the batch it was built from.                     *)
(***************************************************************************)
C5_RowsWithinBudget ==
    /\ Len(screen) <= 20
    /\ Len(screen) <= Len(lastBatch)

(***************************************************************************)
(* C6.  In every variant, when the fetch fails on a tick after succeeding  *)
(* on the tick before, the displayed rows stay exactly as they were.       *)
(***************************************************************************)
C6_FailurePreservesFrame ==
    [][(Sampled /\ fetched.st = "ok" /\ fetched'.st = "fail") => screen' = screen]_vars

(***************************************************************************)
(* C7.  A process whose name or I/O-counter query fails is absent from the *)
(* tick's batch, every other listed process is present, and the tick       *)
(* still renders.                                                          *)
(***************************************************************************)
C7_PartialFailureIsolation ==
    fetched.st = "ok" =>
        LET reported == {fetched.procs[i].pid : i \in Reported(fetched.procs)}
        IN  /\ PidsOf(lastBatch) = reported
            /\ Len(lastBatch) = Cardinality(reported)
            /\ ShownPids \subseteq reported
            /\ Len(screen) = (IF variant \in Termui /\ Len(lastBatch) > 20
                              THEN 20 ELSE Len(lastBatch))

\* one of three listed processes failed its name or I/O query; two are shown
C7_Witness ==
    /\ fetched.st = "ok"
    /\ Len(fetched.procs) = 3
    /\ Cardinality(Reported(fetched.procs)) = 2
    /\ \E i \in 1..3 : fetched.procs[i].ioErr
    /\ Len(lastBatch) = 2
    /\ Len(screen) = 2

(***************************************************************************)
(* C8.  A process whose CPU% or memory% query fails is omitted from the    *)
(* batch; a process whose open-files query fails stays in the batch with   *)
(* an empty open-file list.  Stated of the variants that query CPU% and    *)
(* memory%.                                                                *)
(***************************************************************************)
C8_FieldErrorOmits ==
    (variant \in {"sortable", "selectable"} /\ fetched.st = "ok") =>
        \A i \in 1..Len(fetched.procs) :
            LET q == fetched.procs[i]
            IN  /\ (q.cpuErr \/ q.memErr) => q.pid \notin PidsOf(lastBatch)
                /\ q.filesErr =>
                        /\ q.pid \in PidsOf(lastBatch)
                        /\ Entry(lastBatch, q.pid).OpenFiles = <<>>

(***************************************************************************)
(* C9.  The baseline of a tick's rates is the batch of the most recent     *)
(* successful tick, failed ticks in between or not, and each successful    *)
(* tick replaces it wholesale by its own batch: counters 100, 300, 600     *)
(* over three ticks show rate 300 on the third.                            *)
(***************************************************************************)
C9_BaselineIsLastGoodBatch ==
    [][(Sampled /\ variant = "sortable" /\ fetched'.st = "ok") =>
        /\ PidsOf(lastBatch') =
              {fetched'.procs[i].pid : i \in Reported(fetched'.procs)}
        /\ \A k \in 1..Len(lastBatch') :
              LET curr == lastBatch'[k]
              IN  curr.PID \in PidsOf(lastBatch) =>
                      curr.ReadRate
                          = Max0(curr.ReadBytes - Entry(lastBatch, curr.PID).ReadBytes)]_vars

(***************************************************************************)
(* C10.  A sort-key keypress (c, r, w) sets the sort key and, in the same  *)
(* step and without consuming a timer tick, samples and redraws by the new *)
(* key; timer ticks and resize events leave the sort key unchanged.        *)
(***************************************************************************)
C10_SortKeyPress ==
    [][/\ KeyC => (currentSort' = 0 /\ RedrawnBy(0)' /\ tickPending' = tickPending)
       /\ KeyR => (currentSort' = 1 /\ RedrawnBy(1)' /\ tickPending' = tickPending)
       /\ KeyW => (currentSort' = 2 /\ RedrawnBy(2)' /\ tickPending' = tickPending)
       /\ (Tick \/ Resize \/ TickerFire) => currentSort' = currentSort]_vars

\* r was pressed while a timer tick was waiting: the key is read-rate, the table
\* is drawn, the tick is still waiting
C10_Witness ==
    /\ variant = "sortable"
    /\ pc = "loop"
    /\ currentSort = 1
    /\ fetched.st = "ok"
    /\ Len(screen) > 1
    /\ tickPending = 1

(***************************************************************************)
(* C11.  A resize event re-renders the rows ranked last without asking the *)
(* provider for a new batch: across a resize the displayed rows, their     *)
(* order and the last batch are unchanged.                                 *)
(***************************************************************************)
C11_ResizeKeepsRows ==
    [][Resize => (screen' = screen /\ lastBatch' = lastBatch)]_vars

(***************************************************************************)
(* C12.  In every variant the first sample-and-redraw happens at startup,  *)
(* with the sort key CPU, before the loop waits on any event: the program  *)
(* enters its loop having fetched a batch and showing its rows, and no     *)
(* timer tick has fired yet.                                               *)
(***************************************************************************)
C12_FirstFrameSampled ==
    [][(pc = "init" /\ pc' = "loop") =>
        /\ currentSort' = SortByCPU
        /\ fetched'.st # "none"
        /\ tickPending' = 0
        /\ RedrawnBy(SortByCPU)']_vars

(***************************************************************************)
(* C13.  A quit key ends the loop: the step that handles it fetches and    *)
(* renders nothing and releases the terminal; after it no step happens at  *)
(* all, a timer tick already delivered included; and no other event takes  *)
(* the program out of its loop.                                            *)
(***************************************************************************)
C13_QuitEndsLoop ==
    [][/\ pc # "done"
       /\ (pc = "loop" /\ pc' # "loop") => (Quit /\ pc' = "done")
       /\ Quit => /\ terminal = "open" /\ terminal' = "closed"
                  /\ fetched' = fetched /\ lastBatch' = lastBatch
                  /\ screen' = screen /\ table' = table /\ m' = m]_vars

\* the loop has returned with a delivered timer tick still waiting and rows on
\* the terminal
C13_Witness ==
    /\ pc = "done"
    /\ terminal = "closed"
    /\ tickPending = 1
    /\ fetched.st = "ok"
    /\ Len(screen) > 0

\* a step that handles a timer tick: only Tick and UpdateTick take a delivered
\* tick away
TickHandled == tickPending' < tickPending

\* a step that handles a timer tick and whose fetch succeeds
TickOk == TickHandled /\ fetched'.st = "ok"

\* the terminal shows the rows of the latest successful batch, in its order
ShowsBatch ==
    /\ PidsOf(lastBatch) = {fetched.procs[i].pid : i \in Reported(fetched.procs)}
    /\ Len(screen) = (IF variant \in Termui /\ Len(lastBatch) > 20
                      THEN 20 ELSE Len(lastBatch))
    /\ \A i \in 1..Len(screen) : screen[i].pid = lastBatch[i].PID

(***************************************************************************)
(* C14.  A failed fetch never stops the loop: while the program stays in   *)
(* its loop, timer ticks are handled again and again, failed fetches or    *)
(* not; every                                                              *)
(* handled tick whose fetch succeeds puts the rows of its batch on the     *)
(* terminal; and so, if fetches keep succeeding now and then, a failed     *)
(* tick is followed by a frame built from a later batch.                   *)
(***************************************************************************)
C14_FailureDoesNotStopLoop ==
    /\ <>[](pc = "loop") => []<><<TickHandled>>_vars
    /\ [][TickOk => ShowsBatch']_vars
    /\ []<><<TickOk>>_vars =>
          ((pc = "loop" /\ fetched.st = "fail") ~> (fetched.st = "ok" /\ ShowsBatch))

\* a tick's fetch failed after an earlier one had succeeded, and the next tick
\* has been delivered
C14_Witness ==
    /\ variant = "selectable"
    /\ pc = "loop"
    /\ fetched.st = "fail"
    /\ lastBatch # <<>>
    /\ tickPending = 1

\* the loop goroutine is inside a handler that samples
Busy == pc \in {"draw0", "draw", "update"}

(***************************************************************************)
(* C15.  Events are handled one at a time.  While a sample-and-render is   *)
(* running, every step either is its return to the loop or leaves the sort *)
(* key, the rows, the model and the fetch history alone (a timer firing    *)
(* during a slow fetch only leaves its tick waiting); a handler is entered *)
(* only from the waiting loop or from startup; outside a handler nothing   *)
(* is fetched; and the ticker never holds more than one tick.              *)
(***************************************************************************)
C15_OneAtATime ==
    /\ [][/\ Busy => \/ pc' = "loop"
                     \/ /\ pc' = pc
                        /\ UNCHANGED <<currentSort, table, m, screen, fetched, lastBatch>>
          /\ (Busy' /\ pc' # pc) => pc \in {"init", "loop"}
          /\ ~Busy => (fetched' = fetched /\ lastBatch' = lastBatch)]_vars
    /\ [](variant \in Termui => tickPending <= 1)

\* r was pressed and draw() is still fetching while a tick waits in the ticker's
\* channel
C15_Witness ==
    /\ variant = "sortable"
    /\ pc = "draw"
    /\ currentSort = SortByRead
    /\ fetched.st = "ok"
    /\ Len(screen) > 1
    /\ tickPending = 1

\* the digits are those of the number n
SameCount(digits, n) ==
    \A i \in 1..(Len(digits) + Len(Float64(n))) : DigitAt(digits, i) = DigitAt(Float64(n), i)

\* a <= b, of two byte counts
WideLeq(a, b) ==
    LET n == Len(a) + Len(b)
    IN  \/ \A i \in 1..n : DigitAt(a, i) = DigitAt(b, i)
        \/ \E i \in 1..n : /\ DigitAt(a, i) < DigitAt(b, i)
                           /\ \A j \in (i + 1)..n : DigitAt(a, j) = DigitAt(b, j)

\* 1024^k
Pow1024(k) == [i \in 1..(k + 1) |-> IF i = k + 1 THEN 1 ELSE 0]

\* the least k in 0..4 with b / 1024^k <= 1024, or 4
UnitRule(b) ==
    CHOOSE k \in 0..4 :
        /\ k = 4 \/ WideLeq(b, Pow1024(k + 1))
        /\ \A j \in 0..(k - 1) : ~WideLeq(b, Pow1024(j + 1))

\* the unit is unit k of the rule and the mantissa is that of k divisions: at
\* least 1 from KB on, at most 1024 below TB; 0 and 1024 print in B, 1536 as 1.50 KB
HumanizeRule ==
    printed # NotPrinted =>
        LET k == UnitRule(arg)
        IN  /\ printed.unit = units[k + 1]
            /\ k >= 1 => printed.hundredths >= 100
            /\ k < 4 => printed.hundredths <= 100 * UnitStep
            /\ SameCount(arg, 0) => printed = [hundredths |-> 0, unit |-> "B"]
            /\ SameCount(arg, 1024) => printed = [hundredths |-> 102400, unit |-> "B"]
            /\ SameCount(arg, 1536) => printed = [hundredths |-> 150, unit |-> "KB"]

(***************************************************************************)
(* C16.  humanizeBytes of a byte count b prints unit k of B, KB, MB, GB,   *)
(* TB and b divided by 1024 k times, k the least index in 0..4 with        *)
(* b / 1024^k <= 1024, or 4: never past TB, 1024 and 0 in B, 1536 as       *)
(* 1.50 KB, and 1073741824 as 1.00 GB.                                     *)
(***************************************************************************)
C16_HumanizeBytes ==
    /\ HumanizeRule
    /\ (printed # NotPrinted /\ SameCount(arg, 1073741824)) =>
            printed = [hundredths |-> 100, unit |-> "GB"]

(***************************************************************************)
(* C17.  In the selectable variant the selection index stays within the    *)
(* displayed list, whatever keys are pressed and however the batches grow, *)
(* shrink or fail: selected >= 0, and selected < len(processes) whenever   *)
(* processes is not empty, so that one row carries the cursor.             *)
(***************************************************************************)
C17_SelectionInRange ==
    variant = "selectable" =>
        /\ m.selected >= 0
        /\ m.processes # <<>> =>
              /\ m.selected < Len(m.processes)
              /\ \E i \in 1..Len(screen) : screen[i].cursor = ">"

(***************************************************************************)
(* C18.  In the selectable variant exactly one tick command is outstanding *)
(* (sleeping, or delivered and not yet handled) from start until quit:     *)
(* the start schedules one, a handled tick schedules one successor whether *)
(* its fetch failed or not, and the key handlers schedule none.            *)
(***************************************************************************)
C18_OneTickOutstanding ==
    /\ [](variant = "selectable" =>
            tickSleeping + tickPending = (IF pc = "init" \/ pc = "fatal" THEN 0 ELSE 1))
    /\ [][/\ Start => tickSleeping' = 1
          /\ UpdateTick => (tickPending' = tickPending - 1 /\ tickSleeping' = tickSleeping + 1)
          /\ (KeyUp \/ KeyDown \/ KeyEnter) =>
                (tickSleeping' = tickSleeping /\ tickPending' = tickPending)]_vars

\* a tick's fetch has failed and its successor is asleep, after keys were handled
C18_Witness ==
    /\ variant = "selectable"
    /\ pc = "loop"
    /\ fetched.st = "fail"
    /\ m.processes = <<>>
    /\ m.selected > 0
    /\ m.showFiles
    /\ tickSleeping = 1
    /\ tickPending = 0

(***************************************************************************)
(* C19.  In the sortable variant, whenever the loop is waiting for its     *)
(* next event, the displayed rows are in non-increasing order of the field *)
(* the current sort key selects, whatever ticks, resizes, sort keys and    *)
(* failed fetches came before.                                             *)
(***************************************************************************)
C19_RowsOrderedBySortKey ==
    (variant = "sortable" /\ pc = "loop") =>
        \A i \in 1..Len(screen) : \A j \in (i + 1)..Len(screen) :
            ShownKey(i) >= ShownKey(j)

====
